---- MODULE Spec2Model ----
(***************************************************************************)
(* Model of heartbeat-stream/human_art.py: the state classifier, the       *)
(* steganographic codec, the density layer and the artifact orchestrator.  *)
(*                                                                         *)
(* Conventions                                                             *)
(*   - a Python str is a sequence of one-character strings;                *)
(*   - a Python float that is a quotient of integers is the exact fraction *)
(*     [n |-> numerator, d |-> denominator] with d > 0;                    *)
(*   - x ** 0.5 is kept symbolically as [sqrt_of |-> fraction];            *)
(*   - a coordinate printed with at most four decimals is the integer      *)
(*     number of 1/10000 units;                                            *)
(*   - None is the sentinel value None (no integer input is negative).     *)
(***************************************************************************)
EXTENDS Integers, Sequences, FiniteSets, TLC

VARIABLES
    bpm,                    \* sample value (integer or None)
    bpm_history,            \* sample history, chronological
    timestamp,              \* sample timestamp (str)
    total_beats_recorded,   \* cumulative count
    clock,                  \* reading datetime.utcnow() would give now
    state_info,             \* <<>> or <<dict returned by classify_heart_state>>
    result1,                \* outcome of the first generate_human_art call
    result2,                \* outcome of the second generate_human_art call
    text,                   \* codec: payload text (bytes of its utf-8 form)
    base,                   \* codec: base coordinates the scatter produces
    stego_data,             \* codec: list returned by stego_encode
    layer,                  \* codec: circles emitted by _beat_accumulation
    decode_result,          \* codec: <<>> or <<dict returned by the decoder>>
    pc,                     \* position of the driver
    rng,                    \* SeededRNG instances: [_hash, _i] of each
    drawn,                  \* the values each instance has returned so far
    frames,                 \* locals of the generate_human_art calls in progress
    tables,                 \* module-level tables PALETTES, WATERMARK_PATHS
    sha256                  \* digests computed so far, by the string hashed

vars == <<bpm, bpm_history, timestamp, total_beats_recorded, clock, state_info,
          result1, result2, text, base, stego_data, layer, decode_result, pc,
          rng, drawn, frames, tables, sha256>>

\* the variables of the sample, of the two driver calls and of the codec
sample_vars ==
    <<bpm, bpm_history, timestamp, total_beats_recorded, clock, state_info,
      result1, result2, text, base, stego_data, layer, decode_result, pc>>

None == -1

(***************************************************************************)
(* Bounds of the explored input space                                      *)
(***************************************************************************)
MaxHead == 2
MaxTail == 20
MaxClock == 3
MaxTextLen == 31
MaxCircles == 3
MaxDraws == 9

(***************************************************************************)
(* Generic helpers                                                         *)
(***************************************************************************)
Min(a, b) == IF a <= b THEN a ELSE b
Max(a, b) == IF a >= b THEN a ELSE b
Abs(a) == IF a < 0 THEN -a ELSE a

Frac(n, d) == [n |-> n, d |-> d]
FracEq(a, b) == a.n * b.d = b.n * a.d
FracLe(a, b) == a.n * b.d <= b.n * a.d
FracLt(a, b) == a.n * b.d < b.n * a.d
\* min(1.0, x) and max(lo, x) on fractions
FracMin(a, b) == IF FracLe(a, b) THEN a ELSE b
FracMax(a, b) == IF FracLe(a, b) THEN b ELSE a

Rep(v, n) == [i \in 1..n |-> v]

RECURSIVE SumSeq(_)
SumSeq(s) == IF s = <<>> THEN 0 ELSE Head(s) + SumSeq(Tail(s))

\* Python slices s[-n:], s[:n] and s[a:b] (0-based, end exclusive)
LastN(s, n) == IF Len(s) <= n THEN s ELSE SubSeq(s, Len(s) - n + 1, Len(s))
FirstN(s, n) == IF Len(s) <= n THEN s ELSE SubSeq(s, 1, n)
Slice(s, a, b) == SubSeq(s, a + 1, Min(b, Len(s)))

(***************************************************************************)
(* classify_heart_state                                                    *)
(***************************************************************************)
ANOMALY_THRESHOLD == 25
ANOMALY_MIN_HISTORY == 5
ANOMALY_WINDOW == 10
PACER_LOW == 58
PACER_HIGH == 62
HRV_MIN_HISTORY == 3
HRV_WINDOW == 20
DEFAULT_HOUR == 12
HOUR_FIELD_START == 11
HOUR_FIELD_END == 13

Digits == {"0", "1", "2", "3", "4", "5", "6", "7", "8", "9"}
DigitVal(c) ==
    CASE c = "0" -> 0 [] c = "1" -> 1 [] c = "2" -> 2 [] c = "3" -> 3
      [] c = "4" -> 4 [] c = "5" -> 5 [] c = "6" -> 6 [] c = "7" -> 7
      [] c = "8" -> 8 [] c = "9" -> 9

\* int(s) for a str of at most two characters: surrounding whitespace is
\* stripped, one leading sign is accepted, anything else is a ValueError.
ParseInt(s) ==
    LET ok(v) == [exc |-> "none", val |-> v]
        err == [exc |-> "ValueError", val |-> 0]
    IN  IF Len(s) = 1
        THEN IF s[1] \in Digits THEN ok(DigitVal(s[1])) ELSE err
        ELSE IF Len(s) = 2
        THEN CASE s[1] \in Digits /\ s[2] \in Digits
                    -> ok(10 * DigitVal(s[1]) + DigitVal(s[2]))
               [] s[1] = " " /\ s[2] \in Digits -> ok(DigitVal(s[2]))
               [] s[1] \in Digits /\ s[2] = " " -> ok(DigitVal(s[1]))
               [] s[1] = "+" /\ s[2] \in Digits -> ok(DigitVal(s[2]))
               [] s[1] = "-" /\ s[2] \in Digits -> ok(0 - DigitVal(s[2]))
               [] OTHER -> err
        ELSE err

\* The exceptions the try block around the hour parsing swallows
CaughtByHourParse == {"ValueError", "IndexError"}

\* hour = 12; try: if len(timestamp) > 13: hour = int(timestamp[11:13])
HourParse(ts) ==
    IF Len(ts) > HOUR_FIELD_END
    THEN ParseInt(Slice(ts, HOUR_FIELD_START, HOUR_FIELD_END))
    ELSE [exc |-> "none", val |-> DEFAULT_HOUR]

HourOf(ts) ==
    LET p == HourParse(ts)
    IN  IF p.exc = "none" THEN p.val ELSE DEFAULT_HOUR

TimePeriod(hour) ==
    IF hour < 5 \/ hour >= 22 THEN "night"
    ELSE IF hour < 7 THEN "dawn"
    ELSE IF hour < 12 THEN "morning"
    ELSE IF hour < 15 THEN "midday"
    ELSE IF hour < 19 THEN "evening"
    ELSE "dusk"

\* recent = history[-10:]
Recent(history) == LastN(history, ANOMALY_WINDOW)

\* abs(bpm - sum(recent) / len(recent)) as a fraction; bpm itself is the
\* average when the history is shorter than 5
Deviation(b, history) ==
    IF Len(history) >= ANOMALY_MIN_HISTORY
    THEN Frac(Abs(b * Len(Recent(history)) - SumSeq(Recent(history))),
              Len(Recent(history)))
    ELSE Frac(0, 1)

\* variant: the threshold itself already counts as a deviation
IsAnomalous_AtThreshold(b, history) ==
    /\ Len(history) >= ANOMALY_MIN_HISTORY
    /\ FracLe(Frac(ANOMALY_THRESHOLD, 1), Deviation(b, history))

IsAnomalous(b, history) ==
    /\ Len(history) >= ANOMALY_MIN_HISTORY
    /\ FracLt(Frac(ANOMALY_THRESHOLD, 1), Deviation(b, history))

\* variant: the band excludes its end points
IsPacemakerDriven_Exclusive(b) == PACER_LOW < b /\ b < PACER_HIGH

IsPacemakerDriven(b) == PACER_LOW <= b /\ b <= PACER_HIGH

\* diffs = [abs(history[i] - history[i-1]) for i in range(1, min(20, len(history)))]
\* (Python indices 1 .. min(20, len)-1 are positions 2 .. min(20, len) here)
HrvDiffs(history) ==
    [j \in 1..(Min(HRV_WINDOW, Len(history)) - 1) |->
        Abs(history[j + 1] - history[j])]

RECURSIVE SumSquares(_)
SumSquares(s) ==
    IF s = <<>> THEN 0 ELSE Head(s) * Head(s) + SumSquares(Tail(s))

Sqrt(f) == [sqrt_of |-> f]
SqrtEq(a, b) == FracEq(a.sqrt_of, b.sqrt_of)

\* (sum(d ** 2 for d in diffs) / len(diffs)) ** 0.5
RootMeanSquare(diffs) ==
    IF diffs = <<>> THEN Sqrt(Frac(0, 1))
    ELSE Sqrt(Frac(SumSquares(diffs), Len(diffs)))

Hrv(history) ==
    IF Len(history) >= HRV_MIN_HISTORY
    THEN RootMeanSquare(HrvDiffs(history))
    ELSE Sqrt(Frac(0, 1))

\* variant: the elevated bracket starts at 100
StateOf_ElevatedFrom100(b, history) ==
    IF IsAnomalous(b, history) THEN "anomalous"
    ELSE IF b >= 100 THEN "elevated"
    ELSE IF b > 90 THEN "active"
    ELSE IF b >= 60 THEN "baseline"
    ELSE "resting"

\* variant: the numeric ranges are tested before the anomaly flag
StateOf_RangesFirst(b, history) ==
    IF b > 100 THEN "elevated"
    ELSE IF IsAnomalous(b, history) THEN "anomalous"
    ELSE IF b > 90 THEN "active"
    ELSE IF b >= 60 THEN "baseline"
    ELSE "resting"

\* the state / intensity ladder at the end of classify_heart_state
StateOf(b, history) ==
    IF IsAnomalous(b, history) THEN "anomalous"
    ELSE IF b > 100 THEN "elevated"
    ELSE IF b > 90 THEN "active"
    ELSE IF b >= 60 THEN "baseline"
    ELSE "resting"

\* variant: the elevated intensity is not capped
IntensityOf_Uncapped(b, history) ==
    IF IsAnomalous(b, history)
    THEN FracMin(Frac(1, 1),
                 Frac(Deviation(b, history).n, 50 * Deviation(b, history).d))
    ELSE IF b > 100 THEN Frac(b - 100, 60)
    ELSE IF b > 90 THEN Frac(b - 90, 10)
    ELSE IF b >= 60 THEN Frac(1, 2)
    ELSE FracMax(Frac(1, 10), Frac(60 - b, 60))

IntensityOf(b, history) ==
    IF IsAnomalous(b, history)
    THEN FracMin(Frac(1, 1),
                 Frac(Deviation(b, history).n, 50 * Deviation(b, history).d))
    ELSE IF b > 100 THEN FracMin(Frac(1, 1), Frac(b - 100, 60))
    ELSE IF b > 90 THEN Frac(b - 90, 10)
    ELSE IF b >= 60 THEN Frac(1, 2)
    ELSE FracMax(Frac(1, 10), Frac(60 - b, 60))

\* variant: only a missing value takes the early gap return
classify_heart_state_MissingOnly(b, history, ts) ==
    IF b = None
    THEN [state |-> "gap", intensity |-> Frac(0, 1), is_anomalous |-> FALSE,
          is_pacemaker_driven |-> FALSE, hrv |-> Sqrt(Frac(0, 1)),
          time_period |-> "unknown", bpm |-> 0]
    ELSE [state |-> StateOf(b, history),
          intensity |-> IntensityOf(b, history),
          is_anomalous |-> IsAnomalous(b, history),
          is_pacemaker_driven |-> IsPacemakerDriven(b),
          hrv |-> Hrv(history),
          time_period |-> TimePeriod(HourOf(ts)),
          bpm |-> b]

classify_heart_state(b, history, ts) ==
    IF b = None \/ b = 0
    THEN [state |-> "gap", intensity |-> Frac(0, 1), is_anomalous |-> FALSE,
          is_pacemaker_driven |-> FALSE, hrv |-> Sqrt(Frac(0, 1)),
          time_period |-> "unknown", bpm |-> 0]
    ELSE [state |-> StateOf(b, history),
          intensity |-> IntensityOf(b, history),
          is_anomalous |-> IsAnomalous(b, history),
          is_pacemaker_driven |-> IsPacemakerDriven(b),
          hrv |-> Hrv(history),
          time_period |-> TimePeriod(HourOf(ts)),
          bpm |-> b]

\* an exception leaves classify_heart_state only when the hour parsing
\* raises one that its except clause does not name
ClassifyRaises(b, ts) ==
    /\ ~(b = None \/ b = 0)
    /\ HourParse(ts).exc \notin (CaughtByHourParse \cup {"none"})

(***************************************************************************)
(* Input space of the classifier                                           *)
(***************************************************************************)
BpmValues == {None, 0, 1, 45, 54, 55, 57, 58, 59, 60, 62, 63, 90, 91, 95, 96,
              100, 101, 130, 160, 161}
HistoryValues == {0, 70, 120}
ExampleHistory == <<70, 72, 68, 74, 71, 73, 69, 72, 70, 71>>
Histories ==
    {Rep(a, m) \o Rep(b, n) :
        a \in HistoryValues, b \in HistoryValues,
        m \in 0..MaxHead, n \in 0..MaxTail} \cup {ExampleHistory}

DatePrefix == <<"2", "0", "2", "6", "-", "0", "2", "-", "1", "1", "T">>
TimeSuffix == <<":", "3", "0", ":", "0", "0">>
HourFields ==
    {<<"0", "0">>, <<"0", "4">>, <<"0", "5">>, <<"0", "6">>, <<"0", "7">>,
     <<"1", "1">>, <<"1", "2">>, <<"1", "4">>, <<"1", "5">>, <<"1", "8">>,
     <<"1", "9">>, <<"2", "1">>, <<"2", "2">>, <<"2", "3">>, <<"2", "4">>,
     <<"9", "9">>, <<" ", "7">>, <<"+", "5">>, <<"-", "1">>, <<"x", "x">>,
     <<"1", "x">>, <<":", "3">>}
Timestamps ==
    {DatePrefix \o h \o TimeSuffix : h \in HourFields}
    \cup {<<>>, SubSeq(DatePrefix, 1, 10), DatePrefix \o <<"0", "7">>,
          DatePrefix \o <<"0", "7", ":">>}

Unused == <<>>

\* every value meets every history under a few timestamps, and every
\* timestamp under a few histories
CoreTimestamps ==
    {<<>>, DatePrefix \o <<"1", "0">> \o TimeSuffix,
     DatePrefix \o <<"2", "3">> \o TimeSuffix}
CoreHistories == {<<>>, ExampleHistory, Rep(0, 5)}

InitClassify ==
    /\ bpm \in BpmValues
    /\ \/ bpm_history \in Histories /\ timestamp \in CoreTimestamps
       \/ bpm_history \in CoreHistories /\ timestamp \in Timestamps
    /\ total_beats_recorded = 1
    /\ clock = 0
    /\ state_info = <<>>
    /\ result1 = Unused /\ result2 = Unused
    /\ text = Unused /\ base = Unused /\ stego_data = Unused
    /\ layer = Unused /\ decode_result = Unused
    /\ pc = "start"
    /\ rng = <<>> /\ drawn = <<>> /\ frames = <<>> /\ tables = <<>>
    /\ sha256 = <<>>

\* state_info = classify_heart_state(bpm, bpm_history, timestamp)
CallClassify ==
    /\ pc = "start"
    /\ IF ClassifyRaises(bpm, timestamp)
       THEN /\ pc' = "raised"
            /\ state_info' = <<>>
       ELSE /\ pc' = "classified"
            /\ state_info' = <<classify_heart_state(bpm, bpm_history, timestamp)>>
    /\ UNCHANGED <<rng, drawn, frames, tables, sha256>>
    /\ UNCHANGED <<bpm, bpm_history, timestamp, total_beats_recorded, clock,
                   result1, result2, text, base, stego_data, layer,
                   decode_result>>

NextClassify == CallClassify

SpecClassify == InitClassify /\ [][NextClassify]_vars

(***************************************************************************)
(* Properties of classify_heart_state (checked under SpecClassify)         *)
(***************************************************************************)
Classified == pc = "classified"
Info == state_info[1]
HasValue == bpm # None /\ bpm # 0

\* |value - mean of the last (at most 10) history entries| times the number
\* k of entries averaged: |value * k - sum|
MeanDeviationTimesLen(v, history) ==
    LET k == Min(10, Len(history))
        window == [j \in 1..k |-> history[Len(history) - k + j]]
    IN  Abs(v * k - SumSeq(window))

\* |value - mean of the last (at most 10) history entries| > 25, written
\* over integers: |value * k - sum| > 25 * k for the k entries averaged
MeanDeviationExceeds(v, history, limit) ==
    LET k == Min(10, Len(history))
        window == [j \in 1..k |-> history[Len(history) - k + j]]
    IN  Abs(v * k - SumSeq(window)) > limit * k

\* C3: when the anomaly flag is not raised the state follows the numeric
\* ranges exactly: elevated iff value > 100, active iff 90 < value <= 100,
\* baseline iff 60 <= value <= 90, resting iff 0 < value < 60
C3_RangeBoundaries ==
    (Classified /\ ~Info.is_anomalous) =>
        /\ (Info.state = "elevated" <=> bpm > 100)
        /\ (Info.state = "active" <=> (90 < bpm /\ bpm <= 100))
        /\ (Info.state = "baseline" <=> (60 <= bpm /\ bpm <= 90))
        /\ (Info.state = "resting" <=> (0 < bpm /\ bpm < 60))

C3_Witness ==
    /\ Classified /\ bpm = 100 /\ Len(bpm_history) >= 5
    /\ ~Info.is_anomalous /\ Info.state = "active"

\* C4: the state is gap exactly when the value is 0 (a missing value is
\* classified with value 0); a zero value gives gap with intensity 0
\* whatever the history holds, and no non-zero value gives gap
C4_GapIffZero ==
    Classified =>
        /\ (bpm # None => (Info.state = "gap" <=> bpm = 0))
        /\ (Info.state = "gap" <=> Info.bpm = 0)
        /\ (bpm = 0 => FracEq(Info.intensity, Frac(0, 1)))

C4_Witness ==
    /\ Classified /\ bpm = 0 /\ Len(bpm_history) >= 5
    /\ MeanDeviationExceeds(0, bpm_history, 25)
    /\ Info.state = "gap"

\* C5 (as stated): for every sample, is_anomalous holds iff the history has
\* at least 5 entries and |value - mean of the last <= 10 entries| > 25
C5_Original ==
    (Classified /\ bpm # None) =>
        (Info.is_anomalous <=>
            (Len(bpm_history) >= 5 /\ MeanDeviationExceeds(bpm, bpm_history, 25)))

\* C5 (amended): for every sample with a non-zero value, is_anomalous holds
\* iff the history has at least 5 entries and |value - mean of the last
\* <= 10 entries| > 25; for a zero or missing value is_anomalous is false
C5_AnomalousIffDeviation ==
    Classified =>
        /\ HasValue =>
            (Info.is_anomalous <=>
                (Len(bpm_history) >= 5
                 /\ MeanDeviationExceeds(bpm, bpm_history, 25)))
        /\ ~HasValue => ~Info.is_anomalous

C5_Witness ==
    /\ Classified /\ bpm = 96 /\ Len(bpm_history) > 10
    /\ bpm_history[1] = 0 /\ Info.is_anomalous

\* C6: whenever is_anomalous is true the state is anomalous whatever the
\* numeric bracket of the value, and the state is anomalous only then
C6_AnomalyOverride ==
    Classified => (Info.state = "anomalous" <=> Info.is_anomalous)

C6_Witness ==
    /\ Classified /\ bpm = 160 /\ bpm_history = ExampleHistory
    /\ Info.is_anomalous /\ Info.state = "anomalous"

\* C7: is_pacemaker_driven is true iff 58 <= value <= 62, whatever the
\* history and the anomaly flag
C7_PacemakerBand ==
    Classified => (Info.is_pacemaker_driven <=> (58 <= bpm /\ bpm <= 62))

C7_Witness ==
    /\ Classified /\ bpm = 62 /\ Info.is_anomalous
    /\ Info.is_pacemaker_driven

\* root-mean-square of the consecutive absolute differences of the last (at
\* most 20) entries of the history, 0 below 3 entries
RecentVariability(history) ==
    LET k == Min(20, Len(history))
        window == [j \in 1..k |-> history[Len(history) - k + j]]
        diffs == [j \in 1..(k - 1) |-> Abs(window[j + 1] - window[j])]
    IN  IF Len(history) < 3 THEN Sqrt(Frac(0, 1))
        ELSE Sqrt(Frac(SumSquares(diffs), Len(diffs)))

\* C8: the variability of a sample with a value is the root-mean-square of
\* the consecutive absolute differences over the most recent (at most 20)
\* history entries, and 0 when the history has fewer than 3 entries
C8_HrvOverRecent ==
    (Classified /\ HasValue) =>
        SqrtEq(Info.hrv, RecentVariability(bpm_history))

\* the classifications of every value of the input space against the
\* history and timestamp of the current sample
Alternatives ==
    [v \in BpmValues \ {None} |->
        classify_heart_state(v, bpm_history, timestamp)]

InUnit(f) == FracLe(Frac(0, 1), f) /\ FracLe(f, Frac(1, 1))

Saturation ==
    /\ InUnit(Info.intensity)
    /\ Info.state = "gap" => FracEq(Info.intensity, Frac(0, 1))
    /\ Info.state = "elevated" =>
          FracEq(Info.intensity,
                 IF bpm - 100 >= 60 THEN Frac(1, 1) ELSE Frac(bpm - 100, 60))
    /\ Info.state = "resting" =>
          FracEq(Info.intensity,
                 IF 10 * (60 - bpm) <= 60 THEN Frac(1, 10)
                 ELSE Frac(60 - bpm, 60))

\* C9 (as stated): the intensity lies in [0,1], saturates at the stated
\* bounds and, within each state (anomalous included), is monotonic in the
\* value: no value lies strictly between two values of the same state whose
\* intensities are both larger or both smaller than its own
C9_Original ==
    Classified =>
        /\ Saturation
        /\ bpm # None =>
            LET alt == Alternatives
                same == {v \in DOMAIN alt : alt[v].state = Info.state}
            IN  \A a \in same, c \in same :
                    (a < bpm /\ bpm < c) =>
                        ~ \/ /\ FracLt(Info.intensity, alt[a].intensity)
                             /\ FracLt(Info.intensity, alt[c].intensity)
                          \/ /\ FracLt(alt[a].intensity, Info.intensity)
                             /\ FracLt(alt[c].intensity, Info.intensity)

\* C9 (amended): the intensity lies in [0,1] and saturates at the stated
\* bounds; within each numeric-range state it is monotonic in the value
\* (non-increasing in resting, non-decreasing in baseline, active and
\* elevated); in the anomalous state it is min(1, deviation / 50), which is
\* non-decreasing in the deviation, not in the value
C9_IntensityBounded ==
    Classified =>
        /\ Saturation
        /\ bpm # None =>
            LET alt == Alternatives
                same == {v \in DOMAIN alt : alt[v].state = Info.state /\ v >= bpm}
            IN  /\ Info.state \in {"baseline", "active", "elevated"} =>
                    \A v \in same : FracLe(Info.intensity, alt[v].intensity)
                /\ Info.state = "resting" =>
                    \A v \in same : FracLe(alt[v].intensity, Info.intensity)
                /\ Info.state = "anomalous" =>
                    \A v \in DOMAIN alt :
                        (/\ alt[v].state = "anomalous"
                         /\ MeanDeviationTimesLen(bpm, bpm_history)
                               <= MeanDeviationTimesLen(v, bpm_history))
                        => FracLe(Info.intensity, alt[v].intensity)

C9_Witness ==
    /\ Classified /\ bpm = 161 /\ Info.state = "elevated"
    /\ Info.intensity = Frac(1, 1)

\* the bucket of a timestamp whose hour field (characters 11 and 12) is a
\* two-digit hour 0..23 followed by at least one more character; any other
\* timestamp falls in the neutral midday bucket
ValidHourField(ts) ==
    /\ Len(ts) > 13
    /\ ts[12] \in Digits /\ ts[13] \in Digits
    /\ 10 * DigitVal(ts[12]) + DigitVal(ts[13]) <= 23

BucketOfTimestamp(ts) ==
    IF ~ValidHourField(ts) THEN "midday"
    ELSE LET hh == 10 * DigitVal(ts[12]) + DigitVal(ts[13])
         IN  CASE hh < 5 \/ hh >= 22 -> "night"
               [] hh \in 5..6 -> "dawn"
               [] hh \in 7..11 -> "morning"
               [] hh \in 12..14 -> "midday"
               [] hh \in 15..18 -> "evening"
               [] hh \in 19..21 -> "dusk"

\* C10: for a non-zero value classification returns, with time_period read
\* from the hour field through the six-bucket table, and with the midday
\* bucket whenever the timestamp is too short or its hour field is not a
\* valid hour 0-23
C10_TimePeriod ==
    (pc # "start" /\ HasValue) =>
        /\ Classified
        /\ Info.time_period = BucketOfTimestamp(timestamp)


(***************************************************************************)
(* generate_human_art                                                      *)
(***************************************************************************)
MAX_CELLS == 200
MIN_CELLS == 20
MAX_PARTICLES == 2000
MIN_PARTICLES == 30
MAX_SPARKS == 12
MIN_SPARKS == 3
MAX_VOIDS == 5
PACER_RATIO_WINDOW == 50
SEED_TIMESTAMP_CHARS == 16
PAYLOAD_TIMESTAMP_CHARS == 19
ART_HASH_CHARS == 16
BPM_HASH_CHARS == 32
DEFAULT_WATCH_ID == 1

\* str(n) of a non-negative integer, and of None
RECURSIVE DecimalDigits(_)
DecimalDigits(n) ==
    LET d == <<"0", "1", "2", "3", "4", "5", "6", "7", "8", "9">>[(n % 10) + 1]
    IN  IF n < 10 THEN <<d>> ELSE DecimalDigits(n \div 10) \o <<d>>

ToStr(n) == IF n = None THEN <<"N", "o", "n", "e">> ELSE DecimalDigits(n)

\* n printed on exactly w digits with leading zeros
RECURSIVE ZeroPad(_, _)
ZeroPad(n, w) ==
    IF w = 0 THEN <<>> ELSE ZeroPad(n \div 10, w - 1) \o DecimalDigits(n % 10)

StateChars(state) ==
    CASE state = "gap" -> <<"g", "a", "p">>
      [] state = "resting" -> <<"r", "e", "s", "t", "i", "n", "g">>
      [] state = "baseline" -> <<"b", "a", "s", "e", "l", "i", "n", "e">>
      [] state = "active" -> <<"a", "c", "t", "i", "v", "e">>
      [] state = "elevated" -> <<"e", "l", "e", "v", "a", "t", "e", "d">>
      [] state = "anomalous" -> <<"a", "n", "o", "m", "a", "l", "o", "u", "s">>

\* datetime.utcnow().isoformat(): the clock counts half seconds from
\* 06:59:59.250000 of the day DatePrefix names
IsoFormat(now) ==
    LET ms == 25199250 + now * 500
        secs == ms \div 1000
    IN  DatePrefix \o ZeroPad(secs \div 3600, 2) \o <<":">>
        \o ZeroPad((secs \div 60) % 60, 2) \o <<":">>
        \o ZeroPad(secs % 60, 2) \o <<".">> \o ZeroPad((ms % 1000) * 1000, 6)

\* a few keys of PALETTES; unknown states fall back to the baseline entry
PALETTES ==
    [resting   |-> [heart |-> "#8B0000", pulse |-> "#FF4444", pacer |-> "#4A90D9"],
     baseline  |-> [heart |-> "#CC2936", pulse |-> "#FF6B6B", pacer |-> "#60A5FA"],
     active    |-> [heart |-> "#EF4444", pulse |-> "#FBBF24", pacer |-> "#93C5FD"],
     elevated  |-> [heart |-> "#FF6B6B", pulse |-> "#FFD700", pacer |-> "#BFDBFE"],
     anomalous |-> [heart |-> "#FF0044", pulse |-> "#FF0044", pacer |-> "#F0F0FF"],
     gap       |-> [heart |-> "#330015", pulse |-> "#330015", pacer |-> "#1a1a3a"]]

PaletteOf(state) ==
    IF state \in DOMAIN PALETTES THEN PALETTES[state] ELSE PALETTES["baseline"]

\* hashlib.sha256(s).hexdigest()[:n] and .digest(): an ideal hash, kept as
\* the string it was computed from
Sha256Hex(s, n) == [sha256_of |-> s, hex_chars |-> n]
Sha256Digest(s) == [sha256_of |-> s]

\* the f-string hashed at line 816: f"{total_beats_recorded}:{state}:{bpm}"
ArtHashInput(total, state, b) ==
    ToStr(total) \o <<":">> \o StateChars(state) \o <<":">> \o ToStr(b)

\* seed = f"HUMAN:{total_beats_recorded}:{state}:{bpm}:{timestamp[:16]}"
SeedString(total, state, b, ts) ==
    <<"H", "U", "M", "A", "N", ":">> \o ToStr(total) \o <<":">>
    \o StateChars(state) \o <<":">> \o ToStr(b) \o <<":">>
    \o FirstN(ts, SEED_TIMESTAMP_CHARS)

\* pacer_count / min(50, len(bpm_history)), 0.0 for an empty history
PacerRatio(history) ==
    IF history = <<>> THEN Frac(0, 1)
    ELSE LET recent == LastN(history, PACER_RATIO_WINDOW)
         IN  Frac(Cardinality({i \in DOMAIN recent :
                                  PACER_LOW <= recent[i] /\ recent[i] <= PACER_HIGH}),
                  Min(PACER_RATIO_WINDOW, Len(history)))

\* format(v, "07b"): the binary digits of v, most significant first,
\* padded with zeros to at least seven
RECURSIVE BinaryDigits(_)
BinaryDigits(v) ==
    IF v < 2 THEN <<v>> ELSE BinaryDigits(v \div 2) \o <<v % 2>>

FormatBinary7(v) ==
    LET ds == BinaryDigits(v)
    IN  IF Len(ds) >= 7 THEN ds ELSE Rep(0, 7 - Len(ds)) \o ds

PacerBits_Percent(ratio) ==
    FormatBinary7(Min(127, (ratio.n * 100) \div ratio.d))

\* pacer_bits = format(min(127, int(pacer_ratio * 127)), "07b"); one trace
\* element is emitted per bit
PacerBits(ratio) ==
    FormatBinary7(Min(127, (ratio.n * 127) \div ratio.d))

\* cell_count of _background, particle_count of _beat_accumulation
CellCount(total) == Min(MAX_CELLS, Max(MIN_CELLS, total \div 5))
ParticleCount_Uncapped(total) == Max(MIN_PARTICLES, total)
ParticleCount(total) == Min(MAX_PARTICLES, Max(MIN_PARTICLES, total))

\* spark_count of _anomaly_sparks, 0 when the layer is the empty string
SparkCount_Uncapped(info, history) ==
    IF ~info.is_anomalous \/ Len(history) < ANOMALY_MIN_HISTORY THEN 0
    ELSE LET k == Len(Recent(history))
             magnitude == Frac(Abs(info.bpm * k - SumSeq(Recent(history))), k)
         IN  Max(MIN_SPARKS, magnitude.n \div (8 * magnitude.d))

SparkCount(info, history) ==
    IF ~info.is_anomalous \/ Len(history) < ANOMALY_MIN_HISTORY THEN 0
    ELSE LET k == Len(Recent(history))
             magnitude == Frac(Abs(info.bpm * k - SumSeq(Recent(history))), k)
         IN  Min(MAX_SPARKS, Max(MIN_SPARKS, magnitude.n \div (8 * magnitude.d)))

VoidCount_NoEarlyReturn(history) ==
    LET gap_count == Cardinality({i \in DOMAIN history :
                                     history[i] = 0 \/ history[i] = None})
    IN  Min(MAX_VOIDS, Max(1, (gap_count * 10) \div Max(1, Len(history))))

\* _heart_outline: w() is (rng.next() - 0.5) * (hrv / 20.0) * 8, so over the
\* draws 0.0 .. 1.0 it ranges over -hrv / 5 .. hrv / 5; the square of that
\* reach, for hrv the root of the fraction hrv.sqrt_of
WobbleReachSquared(hrv) == Frac(hrv.sqrt_of.n, hrv.sqrt_of.d * 5 * 5)

\* void_count of _data_gap_voids, 0 when the layer is the empty string
VoidCount(history) ==
    LET gap_count == Cardinality({i \in DOMAIN history :
                                     history[i] = 0 \/ history[i] = None})
    IN  IF gap_count = 0 THEN 0
        ELSE Min(MAX_VOIDS, Max(1, (gap_count * 10) \div Max(1, Len(history))))

\* _ekg_waveform divides the value by 100 in its beat segments unless the
\* value equals 0; a missing value is not 0
EkgRaises(b) == b = None

\* arithmetic and comparisons on a missing history entry raise TypeError:
\* sum(history[-10:]) and the differences over the first 20 entries in
\* classify_heart_state (not reached for a gap value), and 58 <= b <= 62
\* over bpm_history[-50:] in generate_human_art
HasNone(s) == \E i \in DOMAIN s : s[i] = None
HistoryRaises(b, history) ==
    \/ /\ ~(b = None \/ b = 0)
       /\ \/ Len(history) >= ANOMALY_MIN_HISTORY /\ HasNone(Recent(history))
          \/ Len(history) >= HRV_MIN_HISTORY
             /\ HasNone(FirstN(history, HRV_WINDOW))
    \/ HasNone(LastN(history, PACER_RATIO_WINDOW))

\* the timestamp the call works with: the argument, or the clock reading
\* when the argument is empty
EffectiveTimestamp(ts, now) == IF ts = <<>> THEN IsoFormat(now) ELSE ts

\* WATERMARK_PATHS, each path under the name of its letter
WATERMARK_PATHS ==
    [C |-> "path C", H |-> "path H", R |-> "path R", I |-> "path I",
     S |-> "path S", T |-> "path T", O |-> "path O", P |-> "path P",
     E |-> "path E"]

\* _build_watermark: the paths of the letters of CHRISTOPHER, taken from the
\* table `paths`
Watermark(paths) ==
    [i \in 1..11 |->
        paths[<<"C", "H", "R", "I", "S", "T", "O", "P", "H", "E", "R">>[i]]]

\* The descriptor generate_human_art assembles from its locals: the
\* timestamp ts, state_info and pacer_ratio.  The markup is kept as the
\* values it is formatted from.
BuildArt(b, ts, total, history, info, pacer_ratio) ==
    LET state == info.state
        seed == SeedString(total, state, b, ts)
        stego_text == [bpm |-> b, ts |-> FirstN(ts, PAYLOAD_TIMESTAMP_CHARS),
                       beats |-> total, hrv |-> info.hrv, state |-> state,
                       pacer |-> info.is_pacemaker_driven]
        art_hash == Sha256Hex(ArtHashInput(total, state, b), ART_HASH_CHARS)
        bpm_hash == Sha256Hex(ToStr(total) \o <<":">> \o ToStr(b)
                                \o <<":">> \o ts, BPM_HASH_CHARS)
        svg == [root |-> [bpm |-> b, state |-> state, beats |-> total,
                          watch |-> DEFAULT_WATCH_ID, timestamp |-> ts,
                          bpm_hash |-> bpm_hash, hrv |-> info.hrv,
                          pacer_ratio |-> pacer_ratio],
                metadata |-> [count |-> total, bpm |-> b, state |-> state,
                              timestamp |-> ts, hrv |-> info.hrv,
                              hash |-> bpm_hash],
                palette |-> PaletteOf(state),
                rng |-> Sha256Digest(seed),
                background |-> [cells |-> CellCount(total)],
                heart_outline |-> [hrv |-> info.hrv, bpm |-> info.bpm,
                                   is_gap |-> state = "gap"],
                pacemaker_circuit |-> [is_pacer |-> info.is_pacemaker_driven,
                                       ratio |-> pacer_ratio,
                                       traces |-> PacerBits(pacer_ratio)],
                vessel_waveforms |-> IF Len(history) < 2 THEN <<>>
                                     ELSE LastN(history, PACER_RATIO_WINDOW),
                beat_accumulation |-> [particles |-> ParticleCount(total),
                                       stego |-> stego_text],
                anomaly_sparks |-> SparkCount(info, history),
                data_gap_voids |-> VoidCount(history),
                ekg_waveform |-> [bpm |-> b,
                                  is_pacer |-> info.is_pacemaker_driven],
                metadata_band |-> [beats |-> total, state |-> state,
                                   bpm |-> info.bpm],
                watermark |-> Watermark(WATERMARK_PATHS)]
    IN  [svg |-> svg, hash |-> art_hash,
         filename |-> <<"human-", ToStr(total), "-", state, "-", art_hash,
                        ".svg">>,
         state |-> state]

\* The outcome of generate_human_art for a sample when the clock reads
\* `now`: the descriptor, or the exception that leaves the call.
generate_human_art(b, ts_arg, total, history, now) ==
    LET ts == EffectiveTimestamp(ts_arg, now)
    IN  IF HistoryRaises(b, history) \/ EkgRaises(b)
        THEN [exc |-> "TypeError", art |-> <<>>]
        ELSE [exc |-> "none",
              art |-> <<BuildArt(b, ts, total, history,
                                 classify_heart_state(b, history, ts),
                                 PacerRatio(history))>>]

\* The number of rng.next() calls made while the layers of a markup are
\* rendered, as the range it lies in: the background takes 4 draws a cell,
\* the outline 42, the circuitry 4 for each of its 7 traces, 1 for the
\* number n = 8 + int(draw * 6) of nodes and 4 or 6 for each node, the
\* density layer 6 a particle, a spark 2 and 2 for each of its
\* 4 + int(draw * 5) segments, a void 5, and the EKG strip 51 unless the
\* value equals 0.  int(draw * m) lies in 0..m, a draw lying in [0, 1].
DrawRange(svg) ==
    LET fixed == 4 * svg.background.cells + 42 + 7 * 4 + 1
                 + 6 * svg.beat_accumulation.particles
                 + 5 * svg.data_gap_voids
                 + (IF svg.ekg_waveform.bpm = 0 THEN 0 ELSE 51)
    IN  [min |-> fixed + 8 * 4 + svg.anomaly_sparks * (2 + 2 * 4),
         max |-> fixed + (8 + 6) * 6 + svg.anomaly_sparks * (2 + 2 * (4 + 5))]

(***************************************************************************)
(* Two calls of generate_human_art on one sample                           *)
(***************************************************************************)
SampleBpm == {None, 0, 55, 58, 60, 72, 160}
SampleHistories ==
    {<<>>, <<70>>, ExampleHistory, Rep(0, 5), Rep(60, 6), <<70, None, 72>>,
     <<0, 7000, 0>>, <<60, 70, 61>>, <<60>> \o Rep(70, 50)}
SampleTimestamps ==
    {<<>>, DatePrefix \o <<"1", "0">> \o TimeSuffix,
     DatePrefix \o <<"x", "x">> \o TimeSuffix}
SampleBeats == {1, 10, 150, 2500, 10000000}

Init ==
    /\ bpm \in SampleBpm
    /\ bpm_history \in SampleHistories
    /\ timestamp \in SampleTimestamps
    /\ total_beats_recorded \in SampleBeats
    /\ clock \in 0..MaxClock
    /\ state_info = <<>>
    /\ result1 = <<>> /\ result2 = <<>>
    /\ text = Unused /\ base = Unused /\ stego_data = Unused
    /\ layer = Unused /\ decode_result = Unused
    /\ pc = "start"
    /\ rng = <<>> /\ drawn = <<>> /\ frames = <<>> /\ tables = <<>>
    /\ sha256 = <<>>

\* time passes
Tick ==
    /\ clock < MaxClock
    /\ clock' = clock + 1
    /\ UNCHANGED <<rng, drawn, frames, tables, sha256>>
    /\ UNCHANGED <<bpm, bpm_history, timestamp, total_beats_recorded,
                   state_info, result1, result2, text, base, stego_data,
                   layer, decode_result, pc>>

\* result1 = generate_human_art(sample)
GenerateFirst ==
    /\ pc = "start"
    /\ result1' = <<generate_human_art(bpm, timestamp, total_beats_recorded,
                                       bpm_history, clock)>>
    /\ pc' = "first"
    /\ UNCHANGED <<rng, drawn, frames, tables, sha256>>
    /\ UNCHANGED <<bpm, bpm_history, timestamp, total_beats_recorded, clock,
                   state_info, result2, text, base, stego_data, layer,
                   decode_result>>

\* result2 = generate_human_art(sample), an independent second call
GenerateSecond ==
    /\ pc = "first"
    /\ result2' = <<generate_human_art(bpm, timestamp, total_beats_recorded,
                                       bpm_history, clock)>>
    /\ pc' = "done"
    /\ UNCHANGED <<rng, drawn, frames, tables, sha256>>
    /\ UNCHANGED <<bpm, bpm_history, timestamp, total_beats_recorded, clock,
                   state_info, result1, text, base, stego_data, layer,
                   decode_result>>

Next == Tick \/ GenerateFirst \/ GenerateSecond

Spec == Init /\ [][Next]_vars

\* C1: for every sample, the empty timestamp included, two independent
\* calls return the same markup, the same hash and the same filename
C1_Determinism ==
    pc = "done" => result1 = result2

\* the markups the calls made so far have returned
Returned ==
    {r[1].art[1] : r \in {q \in {result1, result2} : q # <<>> /\ q[1].exc = "none"}}

\* C14: for every sample (value 0 or missing, empty or one-entry history,
\* history with zero or missing entries, malformed timestamp) the call
\* returns a descriptor and never raises
C14_NoFailureOutcome ==
    \A r \in {result1, result2} :
        r # <<>> => r[1].exc = "none" /\ r[1].art # <<>>

\* what a sample with an empty history is expected to yield end to end
RestingEndToEnd(art) ==
    LET info == classify_heart_state(bpm, bpm_history, timestamp)
    IN  /\ art.state = "resting" /\ info.state = "resting"
        /\ ~info.is_anomalous
        /\ ~info.is_pacemaker_driven
        /\ ~art.svg.pacemaker_circuit.is_pacer
        /\ ~art.svg.heart_outline.is_gap
        /\ art.svg.anomaly_sparks = 0
        /\ art.svg.data_gap_voids = 0

\* the statement of C15 over the whole resting range 1..59
C15_Original ==
    \A art \in Returned :
        (bpm \in 1..59 /\ bpm_history = <<>>) => RestingEndToEnd(art)

\* C15: a sample with a value in the resting range below the pacing band
\* (1..57, e.g. value 55, count 10) and an empty history yields state
\* resting, is_anomalous false, is_pacemaker_driven false, and a markup with
\* a gap-free heart outline, no anomaly-sparks group and no data-gap-voids
\* group
C15_RestingEndToEnd ==
    \A art \in Returned :
        (bpm \in 1..57 /\ bpm_history = <<>>) => RestingEndToEnd(art)

C15_Witness ==
    /\ bpm = 55 /\ bpm_history = <<>> /\ total_beats_recorded = 10
    /\ \E art \in Returned : art.state = "resting" /\ art.svg.anomaly_sparks = 0

\* C13: whatever the cumulative count (10,000,000 included) a markup has at
\* most 2000 density particles, 200 background cells, 12 spark polylines
\* and 5 void overlays, and rendering it takes at most 13,271 draws
C13_BoundedWork ==
    \A art \in Returned :
        /\ art.svg.beat_accumulation.particles <= 2000
        /\ art.svg.background.cells <= 200
        /\ art.svg.anomaly_sparks <= 12
        /\ art.svg.data_gap_voids <= 5
        /\ DrawRange(art.svg).max <= 13271

C13_Witness ==
    /\ total_beats_recorded = 10000000
    /\ \E art \in Returned :
        /\ art.svg.beat_accumulation.particles = 2000
        /\ art.svg.background.cells = 200
        /\ art.svg.anomaly_sparks = 12
        /\ DrawRange(art.svg).min >= 13000

\* min(12, max(3, floor(deviation / 8))) for the deviation of value v from
\* the mean of the last (at most 10) entries of the history
SparksForDeviation(v, history) ==
    Min(12, Max(3, MeanDeviationTimesLen(v, history)
                       \div (8 * Min(10, Len(history)))))

\* the samples without a missing value or history entry
ComparableSamples ==
    {s \in (SampleBpm \ {None}) \X SampleHistories : ~HasNone(s[2])}

\* C25: the markup has an anomaly-sparks group exactly when the
\* classification has is_anomalous; the group then holds
\* min(12, max(3, floor(deviation / 8))) polylines, between 3 and 12, for
\* the deviation the classifier used, and a sample with a larger deviation
\* never has fewer
C25_SparksIffAnomalous ==
    \A art \in Returned :
        LET info == classify_heart_state(bpm, bpm_history, timestamp)
            sparks == art.svg.anomaly_sparks
        IN  /\ sparks > 0 <=> info.is_anomalous
            /\ info.is_anomalous =>
                   /\ MeanDeviationExceeds(bpm, bpm_history, 25)
                   /\ sparks = SparksForDeviation(bpm, bpm_history)
                   /\ sparks \in 3..12
                   /\ \A s \in ComparableSamples :
                          LET other == classify_heart_state(s[1], s[2], timestamp)
                          IN  (other.is_anomalous
                               /\ FracLe(Deviation(bpm, bpm_history),
                                         Deviation(s[1], s[2])))
                              => sparks <= SparkCount(other, s[2])

\* an anomalous sample below the cap and one at the cap
C25_Witness ==
    \E art \in Returned :
        /\ bpm = 55 /\ bpm_history = Rep(0, 5)
        /\ art.svg.anomaly_sparks = 6
        /\ SparkCount(classify_heart_state(160, Rep(0, 5), timestamp),
                      Rep(0, 5)) = 12

\* the number of zero or missing entries of the history
GapEntries == Cardinality({i \in DOMAIN bpm_history :
                              bpm_history[i] = 0 \/ bpm_history[i] = None})

\* the void overlays of the artifact a call produced, 0 when the group is
\* absent or the call produced no artifact
VoidsOf(r) == IF r[1].exc = "none" THEN r[1].art[1].svg.data_gap_voids ELSE 0

\* C26: the artifact has a data-gap-voids group exactly when the history
\* has a zero or missing entry; the group then holds
\* min(5, max(1, floor(10 * gap entries / history length))) overlays,
\* between 1 and 5
C26_VoidsIffGaps ==
    \A r \in {result1, result2} :
        r # <<>> =>
            /\ VoidsOf(r) > 0 <=> GapEntries > 0
            /\ VoidsOf(r) > 0 =>
                   /\ VoidsOf(r) \in 1..5
                   /\ VoidsOf(r) =
                          Min(5, Max(1, (10 * GapEntries) \div Len(bpm_history)))

\* the same over the calls that return an artifact
VoidsIffGapsWhenReturned ==
    \A art \in Returned :
        /\ art.svg.data_gap_voids > 0 <=> GapEntries > 0
        /\ art.svg.data_gap_voids > 0 =>
               art.svg.data_gap_voids =
                   Min(5, Max(1, (10 * GapEntries) \div Len(bpm_history)))

\* the canvas is W x H = 1200 x 1200: a control point moved further than
\* that is off the canvas wherever its template position is
CanvasSquared == Frac(1200 * 1200, 1)

\* C27: the offset of a control point of the heart silhouette from its
\* template position is proportional to the variability and clamped: for
\* every variability, however large, it stays within a fixed bound (here
\* the weakest one, the size of the canvas)
C27_WobbleClamped ==
    \A art \in Returned :
        FracLe(WobbleReachSquared(art.svg.heart_outline.hrv), CanvasSquared)

\* the same for the histories of heart rates below 300
WobbleWithinCanvasForHeartRates ==
    \A art \in Returned :
        (\A i \in DOMAIN bpm_history : bpm_history[i] < 300) =>
            FracLe(WobbleReachSquared(art.svg.heart_outline.hrv), CanvasSquared)

\* the entries of the history the instrument ratio is taken over, and those
\* of them in the band 58..62
RecentEntries == LastN(bpm_history, 50)
BandEntries ==
    Cardinality({i \in DOMAIN RecentEntries :
                    58 <= RecentEntries[i] /\ RecentEntries[i] <= 62})

\* the number a sequence of bits denotes, most significant bit first
RECURSIVE BitsValue(_)
BitsValue(bits) ==
    IF bits = <<>> THEN 0
    ELSE 2 * BitsValue(SubSeq(bits, 1, Len(bits) - 1)) + bits[Len(bits)]

MAGIC_HI == 202
MAGIC_LO == 254
MANTISSA_BITS == 52
UTF8_REPLACEMENT == 65533

\* the e with 2^e <= n < 2^(e+1), for n >= 1
RECURSIVE Log2Floor(_)
Log2Floor(n) == IF n < 2 THEN 0 ELSE 1 + Log2Floor(n \div 2)

\* 2^n mod m
RECURSIVE Pow2Mod(_, _)
Pow2Mod(n, m) == IF n = 0 THEN 1 % m ELSE (2 * Pow2Mod(n - 1, m)) % m

RECURSIVE Pow2(_)
Pow2(n) == IF n = 0 THEN 1 ELSE 2 * Pow2(n - 1)

\* int(v * 100) in IEEE-754 binary64, for v the double nearest to k / 100
\* (k >= 1 hundredths).  With e the binade of k / 100 the mantissa of v is
\* (k * 2^(52-e) + d) / 100, where -50 < d < 50 restores divisibility by
\* 100; v * 100 is then k plus d units of 2^(e-52), and it is rounded to
\* the grid of k, 2^g units wide (g = binade of k - e).  The product falls
\* below k, and int() yields k - 1, exactly when -d is more than half a grid
\* step.
RECURSIVE DoublingsTo100(_)
DoublingsTo100(k) == IF k >= 100 THEN 0 ELSE 1 + DoublingsTo100(2 * k)

TruncHundredths(k) ==
    LET e == IF k >= 100 THEN Log2Floor(k \div 100) ELSE 0 - DoublingsTo100(k)
        g == Log2Floor(k) - e
        r == (k * Pow2Mod(MANTISSA_BITS - e, 100)) % 100
        d == IF r < 50 THEN 0 - r ELSE 100 - r
    IN  IF 0 - d > Pow2(g - 1) THEN k - 1 ELSE k

\* int(c * 100) for the double nearest to the coordinate c5 / 100000
IntTimes100(c5) ==
    IF c5 % 1000 = 0 /\ c5 >= 1000
    THEN TruncHundredths(c5 \div 1000)
    ELSE c5 \div 1000

\* round(c, 4) in 1/10000 units
Round4(c5) == (c5 + 5) \div 10

\* str(v) of the float v of c4 / 10000, 1 <= v < 1e16: the shortest decimal
\* that reads back as v, with at least one decimal
RECURSIVE StripZeros(_)
StripZeros(ds) ==
    IF Len(ds) > 1 /\ ds[Len(ds)] = "0"
    THEN StripZeros(SubSeq(ds, 1, Len(ds) - 1))
    ELSE ds

FormatFloat(c4) ==
    DecimalDigits(c4 \div 10000) \o <<".">> \o StripZeros(ZeroPad(c4 % 10000, 4))

\* the integer a str of decimal digits denotes, 0 for the empty str
RECURSIVE DigitsValue(_)
DigitsValue(ds) ==
    IF ds = <<>> THEN 0
    ELSE DigitsValue(SubSeq(ds, 1, Len(ds) - 1)) * 10 + DigitVal(ds[Len(ds)])

\* float(s) for a str of digits and dots with at most four decimals, in
\* 1/10000 units: more than one dot, or no digit at all, is a ValueError
ParseFloat(s) ==
    LET dots == {i \in DOMAIN s : s[i] = "."}
    IN  IF Cardinality(dots) > 1 \/ Cardinality(dots) = Len(s)
        THEN [exc |-> "ValueError", val |-> 0]
        ELSE LET p == IF dots = {} THEN Len(s) + 1 ELSE CHOOSE i \in dots : TRUE
                 whole == SubSeq(s, 1, p - 1)
                 decimals == SubSeq(s, p + 1, Len(s))
             IN  [exc |-> "none",
                  val |-> DigitsValue(whole) * 10000
                          + DigitsValue(decimals \o Rep("0", 4 - Len(decimals)))]

\* stego_encode: magic header then one nibble pair per byte
stego_encode(bytes) ==
    LET payload == <<MAGIC_HI, MAGIC_LO>> \o bytes
    IN  [i \in 1..Len(payload) |->
            [x_frac |-> (payload[i] \div 16) % 16,
             y_frac |-> payload[i] % 16,
             byte_index |-> i - 1]]

\* stego_coord(base_x, base_y, stego_byte), stego_byte = <<>> for None
stego_coord(base_x, base_y, stego_byte) ==
    IF stego_byte = <<>>
    THEN <<Round4(base_x), Round4(base_y)>>
    ELSE <<IntTimes100(base_x) * 100 + stego_byte[1].x_frac,
           IntTimes100(base_y) * 100 + stego_byte[1].y_frac>>

\* the loop of _beat_accumulation.  The generator repeats after 8 draws and
\* a particle takes 6, so particle i scatters to the base point of slot
\* i mod 4.
BeatParticles(total, data, points) ==
    [p \in 1..ParticleCount(total) |->
        LET i == p - 1
            stego_byte == IF i < Len(data) THEN <<data[i + 1]>> ELSE <<>>
            xy == stego_coord(points[(i % 4) + 1][1], points[(i % 4) + 1][2],
                              stego_byte)
        IN  [cx |-> FormatFloat(xy[1]), cy |-> FormatFloat(xy[2]),
             s |-> IF stego_byte = <<>> THEN <<>>
                   ELSE <<stego_byte[1].byte_index>>]]

Nibble_Unclamped(c4) == c4 - 100 * IntTimes100(c4 * 10)

\* round((c - int(c * 100) / 100) * 10000) clamped to 0..15, c in 1/10000
Nibble(c4) == Max(0, Min(15, c4 - 100 * IntTimes100(c4 * 10)))

\* the circles the decoding loop takes a byte from: those with a data-s
\* index in which both coordinate patterns find something
Marked(circles) ==
    {p \in DOMAIN circles :
        circles[p].s # <<>> /\ circles[p].cx # <<>> /\ circles[p].cy # <<>>}

\* float(cx_match.group(1)) / float(cy_match.group(1)) raises in the loop
FloatRaises(circles) ==
    \E p \in Marked(circles) :
        \/ ParseFloat(circles[p].cx).exc # "none"
        \/ ParseFloat(circles[p].cy).exc # "none"

\* the dict `indexed`: the last circle carrying an index wins
IndexedBytes(circles) ==
    LET marked == Marked(circles)
        idxs == {circles[p].s[1] : p \in marked}
    IN  [i \in idxs |->
            LET last == CHOOSE p \in marked :
                            /\ circles[p].s[1] = i
                            /\ \A q \in marked : circles[q].s[1] = i => q <= p
            IN  Nibble(ParseFloat(circles[last].cx).val) * 16
                + Nibble(ParseFloat(circles[last].cy).val)]

\* bytes.decode("utf-8", errors="replace") on bytes that are ASCII or lone
\* bytes above 0x7F
DecodeUtf8Replace(raw) ==
    [i \in DOMAIN raw |-> IF raw[i] < 128 THEN raw[i] ELSE UTF8_REPLACEMENT]

SetMax(S) == CHOOSE x \in S : \A y \in S : y <= x

\* the bytes `raw`: indexed.get(i, 0) for i in range(max_idx + 1)
RawBytes(indexed) ==
    [j \in 1..(SetMax(DOMAIN indexed) + 1) |->
        IF (j - 1) \in DOMAIN indexed THEN indexed[j - 1] ELSE 0]

\* The outcome of decode_stego_from_svg: exc names the exception that leaves
\* the function ("none" when it returns); the other fields are the returned
\* dict and mean nothing when exc is not "none".
decode_stego_from_svg(circles) ==
    IF FloatRaises(circles)
    THEN [exc |-> "ValueError", success |-> FALSE, text |-> <<>>, error |-> "",
          byte_count |-> 0]
    ELSE LET indexed == IndexedBytes(circles)
         IN  IF DOMAIN indexed = {}
             THEN [exc |-> "none", success |-> FALSE, text |-> <<>>,
                   error |-> "No indexed bytes", byte_count |-> 0]
             ELSE LET raw == RawBytes(indexed)
                  IN  IF Len(raw) < 2 \/ raw[1] # MAGIC_HI \/ raw[2] # MAGIC_LO
                      THEN [exc |-> "none", success |-> FALSE, text |-> <<>>,
                            error |-> "Bad magic", byte_count |-> 0]
                      ELSE [exc |-> "none", success |-> TRUE,
                            text |-> DecodeUtf8Replace(SubSeq(raw, 3, Len(raw))),
                            error |-> "", byte_count |-> Len(raw) - 2]

(***************************************************************************)
(* Encode a payload, render the density layer, decode it                   *)
(***************************************************************************)
PayloadBytes == {10, 48, 123}
Texts ==
    {<<>>} \cup {<<a>> \o Rep(b, n) :
                    a \in PayloadBytes, b \in PayloadBytes, n \in 0..(MaxTextLen - 1)}
\* base points inside the ellipse the particles scatter in
BasePoints == {<<51205123, 60012344>>, <<60012344, 51206789>>}
LayerBeats == {1, 33}

InitCodec ==
    /\ text \in Texts
    /\ base \in [1..4 -> BasePoints]
    /\ total_beats_recorded \in LayerBeats
    /\ stego_data = <<>> /\ layer = <<>> /\ decode_result = <<>>
    /\ bpm = 0 /\ bpm_history = <<>> /\ timestamp = <<>> /\ clock = 0
    /\ state_info = <<>> /\ result1 = <<>> /\ result2 = <<>>
    /\ pc = "start"
    /\ rng = <<>> /\ drawn = <<>> /\ frames = <<>> /\ tables = <<>>
    /\ sha256 = <<>>

\* stego_data = stego_encode(text)
Encode ==
    /\ pc = "start"
    /\ stego_data' = stego_encode(text)
    /\ pc' = "encoded"
    /\ UNCHANGED <<rng, drawn, frames, tables, sha256>>
    /\ UNCHANGED <<bpm, bpm_history, timestamp, total_beats_recorded, clock,
                   state_info, result1, result2, text, base, layer,
                   decode_result>>

\* layer = _beat_accumulation(palette, rng, total, stego_data, state_info)
Render ==
    /\ pc = "encoded"
    /\ layer' = BeatParticles(total_beats_recorded, stego_data, base)
    /\ pc' = "rendered"
    /\ UNCHANGED <<rng, drawn, frames, tables, sha256>>
    /\ UNCHANGED <<bpm, bpm_history, timestamp, total_beats_recorded, clock,
                   state_info, result1, result2, text, base, stego_data,
                   decode_result>>

\* decode_result = decode_stego_from_svg(layer)
Decode ==
    /\ pc = "rendered"
    /\ decode_result' = <<decode_stego_from_svg(layer)>>
    /\ pc' = "decoded"
    /\ UNCHANGED <<rng, drawn, frames, tables, sha256>>
    /\ UNCHANGED <<bpm, bpm_history, timestamp, total_beats_recorded, clock,
                   state_info, result1, result2, text, base, stego_data,
                   layer>>

NextCodec == Encode \/ Render \/ Decode

SpecCodec == InitCodec /\ [][NextCodec]_vars

\* C2: for any payload b with len(b) + 2 <= 2000, decoding the density layer
\* rendered from stego_encode(b) succeeds and returns exactly b, whatever
\* the cumulative count the layer is rendered with
C2_RoundTrip ==
    (pc = "decoded" /\ Len(text) + 2 <= MAX_PARTICLES) =>
        /\ decode_result[1].success
        /\ decode_result[1].text = text

Rendered == pc \in {"rendered", "decoded"}

\* the first min(n, L) particles carry the index and, as the third and
\* fourth decimals of cx and cy, the nibbles of their payload entry; the
\* later particles carry no index
MarkersOnFirstEntries ==
    Rendered =>
        /\ Len(layer) = ParticleCount(total_beats_recorded)
        /\ \A p \in DOMAIN layer :
               IF p <= Min(Len(layer), Len(stego_data))
               THEN /\ layer[p].s = <<p - 1>>
                    /\ ParseFloat(layer[p].cx).val % 100 = stego_data[p].x_frac
                    /\ ParseFloat(layer[p].cy).val % 100 = stego_data[p].y_frac
               ELSE layer[p].s = <<>>

\* C21: the first min(n, L) of the n particles carry index and nibbles of
\* their payload entry and the later ones no marker; when L > n, decoding
\* the layer recovers exactly the first n payload bytes (the magic and the
\* first n - 2 bytes of the text)
C21_MarkersAndTruncation ==
    /\ MarkersOnFirstEntries
    /\ (pc = "decoded" /\ Len(stego_data) > Len(layer)) =>
            /\ decode_result[1].success
            /\ decode_result[1].byte_count = Len(layer) - 2
            /\ decode_result[1].text = FirstN(text, Len(layer) - 2)

\* decoding the rendered layer succeeds: the layer has at least 30
\* particles, so both magic bytes are emitted
DecodeFindsMagic ==
    pc = "decoded" =>
        /\ Len(layer) >= 30
        /\ decode_result[1].exc = "none"
        /\ decode_result[1].success

\* C30: decoding the markup of the density layer always succeeds; the
\* recovered text is the prefix of the payload of length
\* min(particle count, payload length + 2) - 2, and it is the whole payload
\* exactly when the particle count is at least payload length + 2
C30_DecodeRecoversPrefix ==
    pc = "decoded" =>
        LET n == Min(2000, Max(30, total_beats_recorded))
            recovered == decode_result[1].text
        IN  /\ decode_result[1].success
            /\ recovered = SubSeq(text, 1, Min(n, Len(text) + 2) - 2)
            /\ recovered = text <=> n >= Len(text) + 2


(***************************************************************************)
(* stego_coord on one base point                                           *)
(***************************************************************************)
\* base coordinates inside the ellipse: with five decimals, and exact
\* hundredths (512.05, 600.12, 600.0)
CoordBases == {51205123, 51206789, 60012344, 51205000, 60012000, 60000000}
CoordNibbles == {0, 3, 15}

InitCoord ==
    /\ base \in [1..1 -> CoordBases \X CoordBases]
    /\ stego_data \in {<<>>} \cup
           {<<[x_frac |-> x, y_frac |-> y, byte_index |-> 2]>> :
               x \in CoordNibbles, y \in CoordNibbles}
    /\ layer = <<>> /\ text = <<>> /\ decode_result = <<>>
    /\ total_beats_recorded = 1
    /\ bpm = 0 /\ bpm_history = <<>> /\ timestamp = <<>> /\ clock = 0
    /\ state_info = <<>> /\ result1 = <<>> /\ result2 = <<>>
    /\ pc = "start"
    /\ rng = <<>> /\ drawn = <<>> /\ frames = <<>> /\ tables = <<>>
    /\ sha256 = <<>>

\* px, py = stego_coord(base_x, base_y, stego_byte)
ApplyCoord ==
    /\ pc = "start"
    /\ layer' = <<stego_coord(base[1][1], base[1][2], stego_data)>>
    /\ pc' = "applied"
    /\ UNCHANGED <<rng, drawn, frames, tables, sha256>>
    /\ UNCHANGED <<bpm, bpm_history, timestamp, total_beats_recorded, clock,
                   state_info, result1, result2, text, base, stego_data,
                   decode_result>>

SpecCoord == InitCoord /\ [][ApplyCoord]_vars

\* the returned coordinate c4 (1/10000 units) keeps the integer part and
\* the first two decimals of the base c5 (1/100000 units) and has the
\* nibble as its third and fourth decimals
CarriesNibble(c4, c5, nibble) ==
    /\ c4 \div 100 = c5 \div 1000
    /\ c4 % 100 = nibble
    /\ nibble <= 15

\* c4 is the base c5 rounded to four decimals
RoundedToFour(c4, c5) == Abs(10 * c4 - c5) <= 5

\* C22: with a payload entry stego_coord returns the base truncated to two
\* decimals with the high nibble (x) and the low nibble (y) as third and
\* fourth decimals; with no entry it returns the base rounded to four
\* decimals
C22_CoordCarriesNibbles ==
    pc = "applied" =>
        IF stego_data = <<>>
        THEN /\ RoundedToFour(layer[1][1], base[1][1])
             /\ RoundedToFour(layer[1][2], base[1][2])
        ELSE /\ CarriesNibble(layer[1][1], base[1][1], stego_data[1].x_frac)
             /\ CarriesNibble(layer[1][2], base[1][2], stego_data[1].y_frac)

\* the same over the bases that are not exact hundredths
CoordCarriesNibblesOffHundredths ==
    (pc = "applied" /\ base[1][1] % 1000 # 0 /\ base[1][2] % 1000 # 0) =>
        C22_CoordCarriesNibbles


(***************************************************************************)
(* The decoder on arbitrary markup                                         *)
(***************************************************************************)
\* coordinate texts of a circle: the nibble pairs of 0xCA, of 0xFE and of
\* "0", a cx of one dot, a cy with two dots, and a circle without cx
CoordPairs ==
    {<<<<"5", "1", "2", ".", "0", "5", "1", "2">>, <<"6", "0", "0", ".", "0", "0", "1">>>>,
     <<<<"5", "1", "2", ".", "0", "5", "1", "5">>, <<"6", "0", "0", ".", "0", "0", "1", "4">>>>,
     <<<<"5", "1", "2", ".", "0", "5", "0", "3">>, <<"6", "0", "0", ".", "0">>>>,
     <<<<"5", "1", "2", ".", "0", "5">>, <<"6", "0", "0", ".", "0", "0", "1", "4">>>>,
     <<<<".">>, <<"6", "0", "0", ".", "0">>>>,
     <<<<"5", "1", "2", ".", "0", "5", "0", "3">>, <<"1", ".", "2", ".", "3">>>>,
     <<<<>>, <<"6", "0", "0", ".", "0">>>>}

MarkIndexes == {0, 1, 3}

Elements ==
    {[cx |-> xy[1], cy |-> xy[2], s |-> m] :
        xy \in CoordPairs, m \in {<<>>} \cup {<<i>> : i \in MarkIndexes}}

Markups == UNION {[1..n -> Elements] : n \in 0..MaxCircles}

InitDecode ==
    /\ layer \in Markups
    /\ text = <<>> /\ base = <<>> /\ stego_data = <<>> /\ decode_result = <<>>
    /\ total_beats_recorded = 0
    /\ bpm = 0 /\ bpm_history = <<>> /\ timestamp = <<>> /\ clock = 0
    /\ state_info = <<>> /\ result1 = <<>> /\ result2 = <<>>
    /\ pc = "rendered"
    /\ rng = <<>> /\ drawn = <<>> /\ frames = <<>> /\ tables = <<>>
    /\ sha256 = <<>>

SpecDecode == InitDecode /\ [][Decode]_vars

Decoded == pc = "decoded"
Outcome == decode_result[1]

\* the indexes the decoder has a byte for, and the first two bytes of raw
IndexesFound == {layer[p].s[1] : p \in Marked(layer)}
HasMagic ==
    /\ {0, 1} \subseteq IndexesFound
    /\ IndexedBytes(layer)[0] = MAGIC_HI
    /\ IndexedBytes(layer)[1] = MAGIC_LO

\* C11: on any markup the decoder returns, never raises: without an indexed
\* circle it returns success = false with the no-indexed-bytes reason, with
\* indexed circles whose first two bytes are not 0xCA 0xFE it returns
\* success = false with the bad-magic reason, and it returns success = true
\* only when the first two bytes are 0xCA 0xFE
C11_DecodeNeverRaises ==
    Decoded =>
        /\ Outcome.exc = "none"
        /\ IndexesFound = {} =>
               ~Outcome.success /\ Outcome.error = "No indexed bytes"
        /\ (IndexesFound # {} /\ ~HasMagic) =>
               ~Outcome.success /\ Outcome.error = "Bad magic"
        /\ Outcome.success => HasMagic

\* C12: whenever some index below the highest data-s index has no circle,
\* the decoder returns success = false
C12_MissingIndexFails ==
    (Decoded /\ IndexesFound # {}
        /\ \E i \in 0..SetMax(IndexesFound) : i \notin IndexesFound) =>
        ~Outcome.success

\* C23: the bytes are reassembled by index over 0..max index, an index
\* without an indexed circle giving the byte 0; every recovered byte is in
\* 0..255; the reported byte_count is (max index + 1) - 2
C23_ReassembledByIndex ==
    (Decoded /\ Outcome.exc = "none") =>
        /\ \A i \in IndexesFound : IndexedBytes(layer)[i] \in 0..255
        /\ Outcome.success =>
               /\ Outcome.byte_count = (SetMax(IndexesFound) + 1) - 2
               /\ Len(Outcome.text) = Outcome.byte_count
               /\ \A j \in DOMAIN Outcome.text :
                      Outcome.text[j] =
                          IF (j + 1) \in IndexesFound
                          THEN DecodeUtf8Replace(
                                   <<IndexedBytes(layer)[j + 1]>>)[1]
                          ELSE 0

\* a successful decode with index 2 missing below index 3, the second
\* magic byte read from a coordinate whose nibble was clamped
C23_Witness ==
    /\ Decoded /\ Outcome.success
    /\ IndexesFound = {0, 1, 3}
    /\ Outcome.byte_count = 2
    /\ Outcome.text[1] = 0
    /\ \E p \in Marked(layer) :
           layer[p].s = <<1>> /\ layer[p].cx = <<"5", "1", "2", ".", "0", "5">>


(***************************************************************************)
(* SeededRNG                                                               *)
(*                                                                         *)
(* An unsigned 32-bit integer is kept as its two 16-bit halves [hi, lo],   *)
(* and a value returned by next() as the exact quotient [n, d] of two such *)
(* integers.  Distinct quotients n / 0xFFFFFFFF are distinct floats, and   *)
(* the float is 1.0 exactly when n = d.                                    *)
(***************************************************************************)
Word32_LittleEndian(a, b, c, d) == [hi |-> d * 256 + c, lo |-> b * 256 + a]

\* (a << 24 | b << 16 | c << 8 | d) & 0xFFFFFFFF
Word32(a, b, c, d) == [hi |-> a * 256 + b, lo |-> c * 256 + d]

\* 0xFFFFFFFF
MAX_UINT32 == [hi |-> 65535, lo |-> 65535]

WordLt(x, y) == x.hi < y.hi \/ (x.hi = y.hi /\ x.lo < y.lo)

\* SeededRNG(seed), given the digest of the seed
NewRng(digest) == [hash |-> digest, i |-> 0]

\* SeededRNG.next(): the value returned and the instance afterwards
NextDraw(r) ==
    LET idx == (r.i * 4) % 32
        a == r.hash[idx + 1]
        b == r.hash[((idx + 1) % 32) + 1]
        c == r.hash[((idx + 2) % 32) + 1]
        d == r.hash[((idx + 3) % 32) + 1]
    IN  [value |-> [n |-> Word32(a, b, c, d), d |-> MAX_UINT32],
         rng |-> [r EXCEPT !.i = @ + 1]]

\* sha256("HUMAN:10:resting:55:2026-02-11T10:30").digest()
ExampleDigest ==
    <<209, 188, 142, 140, 185, 43, 20, 19, 223, 158, 98, 67, 175, 208, 187, 185,
      96, 8, 245, 62, 101, 3, 26, 237, 34, 79, 86, 66, 91, 9, 204, 175>>

\* a digest with the four bytes of word w (0..7) replaced
WithWord(digest, w, bytes) ==
    [j \in 1..32 |->
        IF (j - 1) \div 4 = w THEN bytes[((j - 1) % 4) + 1] ELSE digest[j]]

Digests ==
    {ExampleDigest,
     WithWord(ExampleDigest, 0, <<0, 0, 0, 0>>),
     WithWord(ExampleDigest, 1, <<255, 255, 255, 255>>),
     WithWord(ExampleDigest, 3, <<255, 255, 255, 254>>),
     WithWord(ExampleDigest, 6, <<255, 255, 255, 255>>)}

\* two instances constructed from one seed
InitRng ==
    /\ \E digest \in Digests : rng = [k \in 1..2 |-> NewRng(digest)]
    /\ drawn = [k \in 1..2 |-> <<>>]
    /\ frames = <<>> /\ tables = <<>> /\ sha256 = <<>>
    /\ bpm = 0 /\ bpm_history = <<>> /\ timestamp = <<>>
    /\ total_beats_recorded = 0 /\ clock = 0
    /\ state_info = <<>> /\ result1 = <<>> /\ result2 = <<>>
    /\ text = <<>> /\ base = <<>> /\ stego_data = <<>> /\ layer = <<>>
    /\ decode_result = <<>>
    /\ pc = "start"

\* rng.next() on instance k
CallNext(k) ==
    /\ rng[k].i < MaxDraws
    /\ drawn' = [drawn EXCEPT ![k] = Append(@, NextDraw(rng[k]).value)]
    /\ rng' = [rng EXCEPT ![k] = NextDraw(rng[k]).rng]
    /\ UNCHANGED <<frames, tables, sha256>>
    /\ UNCHANGED sample_vars

NextRng == \E k \in DOMAIN rng : CallNext(k)

SpecRng == InitRng /\ [][NextRng]_vars

\* C16: every value returned by next() is smaller than 1, whatever the
\* digest, one whose four selected bytes are all 0xFF included
C16_DrawBelowOne ==
    \A k \in DOMAIN drawn :
        \A j \in DOMAIN drawn[k] : WordLt(drawn[k][j].n, drawn[k][j].d)

\* the four bytes of a digest from offset (4 * k) mod 32, big-endian
BigEndianAt(digest, k) ==
    LET o == (4 * k) % 32
    IN  [hi |-> digest[o + 1] * 256 + digest[o + 2],
         lo |-> digest[o + 3] * 256 + digest[o + 4]]

\* C17: the k-th draw of an instance is the big-endian word at offset
\* (4 * k) mod 32 of the seed digest over 0xFFFFFFFF, the counter counts the
\* draws made, and two instances of one seed that made the same number of
\* draws returned the same sequence
C17_DrawIsFunctionOfSeedAndIndex ==
    \A k \in DOMAIN rng :
        /\ rng[k].i = Len(drawn[k])
        /\ \A j \in DOMAIN drawn[k] :
               /\ drawn[k][j].n = BigEndianAt(rng[k].hash, j - 1)
               /\ drawn[k][j].d = [hi |-> 65535, lo |-> 65535]
        /\ \A m \in DOMAIN rng :
               Len(drawn[k]) = Len(drawn[m]) => drawn[k] = drawn[m]

C17_Witness ==
    /\ DOMAIN rng = {1, 2}
    /\ Len(drawn[1]) = 9 /\ Len(drawn[2]) = 9
    /\ drawn[1] = drawn[2]
    /\ drawn[1][9] = drawn[1][1] /\ drawn[1][2] # drawn[1][1]


(***************************************************************************)
(* Two concurrent calls of generate_human_art                              *)
(*                                                                         *)
(* Each call runs line by line on its own frame of locals; the history     *)
(* list, the clock and the module-level tables are shared by both.         *)
(***************************************************************************)
\* the layers that follow the metadata and the definitions, in the order the
\* list `layers` is built in
LAYER_ORDER_SparksFirst ==
    <<"background", "heart_outline", "pacemaker_circuit", "vessel_waveforms",
      "anomaly_sparks", "beat_accumulation", "data_gap_voids", "ekg_waveform",
      "metadata_band", "watermark">>

\* the renderers of the list `layers` that draw or are named by a claim, in
\* the order the list evaluates them
LAYER_ORDER ==
    <<"background", "heart_outline", "pacemaker_circuit", "vessel_waveforms",
      "beat_accumulation", "anomaly_sparks", "data_gap_voids", "ekg_waveform",
      "metadata_band", "watermark">>

\* the value of the draw made after k other draws from the state r
DrawAt(r, k) == NextDraw([r EXCEPT !.i = @ + k]).value

\* int(v * m) for a draw v and 1 <= m <= 6: with m * n = q * 2^32 + rest,
\* the quotient by 2^32 - 1 is q, or q + 1 when q + rest reaches 2^32 - 1
IntOfDraw(v, m) ==
    LET t_lo == m * v.n.lo
        t_hi == m * v.n.hi + t_lo \div 65536
        q == t_hi \div 65536
    IN  IF t_hi % 65536 = 65535 /\ (t_lo % 65536) + q >= 65535
        THEN q + 1 ELSE q

\* the draws of n circuit nodes from draw `at` on: three for the place and
\* the radius, one for the test rng.next() > 0.5, two more when it holds
RECURSIVE NodeDraws(_, _, _)
NodeDraws(r, at, n) ==
    IF n = 0 THEN 0
    ELSE LET step == IF DrawAt(r, at + 3).n.hi >= 32768 THEN 6 ELSE 4
         IN  step + NodeDraws(r, at + step, n - 1)

\* the draws of n sparks from draw `at` on: one for the number of segments
\* 4 + int(draw * 5), two a segment, one for the opacity
RECURSIVE SparkDraws(_, _, _)
SparkDraws(r, at, n) ==
    IF n = 0 THEN 0
    ELSE LET step == 2 + 2 * (4 + IntOfDraw(DrawAt(r, at), 5))
         IN  step + SparkDraws(r, at + step, n - 1)

ParticleDraws_FiveEach(r, i) ==
    [angle |-> DrawAt(r, 5 * i), radius_x |-> DrawAt(r, 5 * i + 1),
     radius_y |-> DrawAt(r, 5 * i + 2), r |-> DrawAt(r, 5 * i + 3),
     color |-> DrawAt(r, 5 * i + 4), opacity |-> DrawAt(r, 5 * i + 4)]

\* the draws particle i of _beat_accumulation makes when the layer is
\* entered with the generator in state r: angle, radius_x and radius_y give
\* the base coordinates, then r, the colour index and the opacity
ParticleDraws(r, i) ==
    [angle |-> DrawAt(r, 6 * i), radius_x |-> DrawAt(r, 6 * i + 1),
     radius_y |-> DrawAt(r, 6 * i + 2), r |-> DrawAt(r, 6 * i + 3),
     color |-> DrawAt(r, 6 * i + 4), opacity |-> DrawAt(r, 6 * i + 5)]

\* the number of rng.next() calls a layer makes, entered with the generator
\* in state r, for the markup values svg
LayerDraws(name, r, svg) ==
    CASE name = "background" -> 4 * svg.background.cells
      [] name = "heart_outline" -> 42
      [] name = "pacemaker_circuit" ->
             7 * 4 + 1 + NodeDraws(r, 7 * 4 + 1, 8 + IntOfDraw(DrawAt(r, 7 * 4), 6))
      [] name = "beat_accumulation" -> 6 * svg.beat_accumulation.particles
      [] name = "anomaly_sparks" -> SparkDraws(r, 0, svg.anomaly_sparks)
      [] name = "data_gap_voids" -> 5 * svg.data_gap_voids
      [] name = "ekg_waveform" -> IF svg.ekg_waveform.bpm = 0 THEN 0 ELSE 51
      [] OTHER -> 0

\* the exception a layer ends in, "none" when it returns: the colour index
\* int(draw * 4) of a particle is out of range for a draw of 1.0, and the
\* EKG strip divides a missing value
LayerRaises(name, r, svg) ==
    CASE name = "beat_accumulation"
            /\ \E p \in 0..(svg.beat_accumulation.particles - 1) :
                   IntOfDraw(DrawAt(r, 6 * p + 4), 4) = 4 -> "IndexError"
      [] name = "ekg_waveform" /\ EkgRaises(svg.ekg_waveform.bpm) -> "TypeError"
      [] OTHER -> "none"

Calls == {1, 2}
CallBpm == {55, 160}
CallDigests ==
    {ExampleDigest,
     WithWord(ExampleDigest, 0, <<0, 0, 0, 0>>),
     WithWord(ExampleDigest, 1, <<255, 255, 255, 255>>)}
ModuleTables == [PALETTES |-> PALETTES, WATERMARK_PATHS |-> WATERMARK_PATHS]

RngOf_Shared(c) == 1

\* the SeededRNG instance call c constructs and draws from: its own local
RngOf(c) == c

NewFrame(b) ==
    [bpm |-> b, pc |-> "enter", timestamp |-> <<>>, state_info |-> <<>>,
     palette |-> <<>>, pacer_ratio |-> <<>>, layers |-> <<>>, outcome |-> <<>>]

InitConcurrent ==
    /\ \E b \in CallBpm :
           frames = [c \in Calls |-> NewFrame(IF c = 1 THEN 55 ELSE b)]
    /\ bpm_history \in {<<>>, Rep(60, 6)}
    /\ timestamp \in {<<>>, DatePrefix \o <<"1", "0">> \o TimeSuffix}
    /\ total_beats_recorded = 10
    /\ clock = 0
    /\ tables = ModuleTables
    /\ rng = <<>> /\ drawn = <<>> /\ sha256 = <<>>
    /\ bpm = 0 /\ state_info = <<>> /\ result1 = <<>> /\ result2 = <<>>
    /\ text = <<>> /\ base = <<>> /\ stego_data = <<>> /\ layer = <<>>
    /\ decode_result = <<>>
    /\ pc = "start"

\* what a step of a call leaves alone besides frames, rng and sha256
CallUnchanged ==
    UNCHANGED <<bpm, bpm_history, timestamp, total_beats_recorded, clock,
                state_info, result1, result2, text, base, stego_data, layer,
                decode_result, pc, drawn, tables>>

\* the descriptor a call assembles from its locals and the shared history
FrameArt(f) ==
    BuildArt(f.bpm, f.timestamp[1], total_beats_recorded, bpm_history,
             f.state_info[1], f.pacer_ratio[1])

\* bpm_history defaulted, timestamp defaulted to the clock reading
Enter(c) ==
    /\ frames[c].pc = "enter"
    /\ frames' = [frames EXCEPT ![c].timestamp =
                                    <<EffectiveTimestamp(timestamp, clock)>>,
                                ![c].pc = "classify"]
    /\ UNCHANGED <<rng, sha256>>
    /\ CallUnchanged

\* state_info = classify_heart_state(...); palette = PALETTES.get(...)
ClassifyStep(c) ==
    LET f == frames[c]
        info == classify_heart_state(f.bpm, bpm_history, f.timestamp[1])
        palette == IF info.state \in DOMAIN tables.PALETTES
                   THEN tables.PALETTES[info.state]
                   ELSE tables.PALETTES["baseline"]
    IN  /\ f.pc = "classify"
        /\ frames' = [frames EXCEPT ![c] =
               IF HistoryRaises(f.bpm, bpm_history)
               THEN [f EXCEPT !.pc = "raised",
                              !.outcome = <<[exc |-> "TypeError", art |-> <<>>]>>]
               ELSE [f EXCEPT !.pc = "seed", !.state_info = <<info>>,
                              !.palette = <<palette>>]]
        /\ UNCHANGED <<rng, sha256>>
        /\ CallUnchanged

\* rng = SeededRNG(seed), then pacer_ratio from bpm_history[-50:].  The
\* digest of a string not hashed before is any of CallDigests; a string
\* hashed before has the digest it had.
SeedStep(c) ==
    LET f == frames[c]
        seed == SeedString(total_beats_recorded, f.state_info[1].state, f.bpm,
                           f.timestamp[1])
    IN  /\ f.pc = "seed"
        /\ \E digest \in IF seed \in DOMAIN sha256 THEN {sha256[seed]}
                         ELSE CallDigests :
               /\ sha256' = (seed :> digest) @@ sha256
               /\ rng' = (RngOf(c) :> NewRng(digest)) @@ rng
        /\ frames' = [frames EXCEPT ![c] =
               IF HasNone(LastN(bpm_history, PACER_RATIO_WINDOW))
               THEN [f EXCEPT !.pc = "raised",
                              !.outcome = <<[exc |-> "TypeError", art |-> <<>>]>>]
               ELSE [f EXCEPT !.pc = "render",
                              !.pacer_ratio = <<PacerRatio(bpm_history)>>]]
        /\ CallUnchanged

\* the next layer of the list `layers`
RenderStep(c) ==
    LET f == frames[c]
        name == LAYER_ORDER[Len(f.layers) + 1]
        r == rng[RngOf(c)]
        svg == FrameArt(f).svg
        exc == LayerRaises(name, r, svg)
    IN  /\ f.pc = "render"
        /\ Len(f.layers) < Len(LAYER_ORDER)
        /\ IF exc # "none"
           THEN /\ frames' = [frames EXCEPT ![c].pc = "raised",
                                  ![c].outcome = <<[exc |-> exc, art |-> <<>>]>>]
                /\ rng' = rng
           ELSE /\ frames' = [frames EXCEPT ![c].layers = Append(@,
                       [name |-> name,
                        value |-> IF name = "watermark"
                                  THEN Watermark(tables.WATERMARK_PATHS)
                                  ELSE svg[name],
                        first |-> r.i, hash |-> r.hash])]
                /\ rng' = [rng EXCEPT ![RngOf(c)].i = @ + LayerDraws(name, r, svg)]
        /\ UNCHANGED sha256
        /\ CallUnchanged

\* the root attributes, the joined layers and the returned dict
ReturnStep(c) ==
    LET f == frames[c]
        art == FrameArt(f)
        rendered(n) == \E j \in DOMAIN f.layers : f.layers[j].name = n
        value(n) == f.layers[CHOOSE j \in DOMAIN f.layers :
                                 f.layers[j].name = n].value
    IN  /\ f.pc = "render"
        /\ Len(f.layers) = Len(LAYER_ORDER)
        /\ frames' = [frames EXCEPT ![c].pc = "done",
               ![c].outcome = <<[exc |-> "none",
                   art |-> <<[art EXCEPT !.svg =
                       [n \in DOMAIN art.svg |->
                           IF rendered(n) THEN value(n)
                           ELSE IF n = "palette" THEN f.palette[1]
                           ELSE art.svg[n]]]>>]>>]
        /\ UNCHANGED <<rng, sha256>>
        /\ CallUnchanged

NextConcurrent ==
    \/ Tick
    \/ \E c \in Calls :
           Enter(c) \/ ClassifyStep(c) \/ SeedStep(c) \/ RenderStep(c)
           \/ ReturnStep(c)

SpecConcurrent == InitConcurrent /\ [][NextConcurrent]_vars

\* the layers a call renders when it runs alone from the generator state r,
\* up to the layer that raises
RECURSIVE AloneLayers(_, _, _)
AloneLayers(svg, r, j) ==
    IF j > Len(LAYER_ORDER) THEN <<>>
    ELSE IF LayerRaises(LAYER_ORDER[j], r, svg) # "none" THEN <<>>
    ELSE <<[name |-> LAYER_ORDER[j], value |-> svg[LAYER_ORDER[j]],
            first |-> r.i, hash |-> r.hash]>>
         \o AloneLayers(svg,
                        [r EXCEPT !.i = @ + LayerDraws(LAYER_ORDER[j], r, svg)],
                        j + 1)

\* a call that has ended has rendered the layers, and returned the
\* descriptor or raised the exception, of a run of its own
EndedAsAlone(f) ==
    LET ts == f.timestamp[1]
        info == classify_heart_state(f.bpm, bpm_history, ts)
        seed == SeedString(total_beats_recorded, info.state, f.bpm, ts)
        art == BuildArt(f.bpm, ts, total_beats_recorded, bpm_history, info,
                        PacerRatio(bpm_history))
        alone == AloneLayers(art.svg, NewRng(sha256[seed]), 1)
    IN  /\ f.layers = alone
        /\ IF Len(alone) = Len(LAYER_ORDER)
           THEN f.outcome[1] =
                    generate_human_art(f.bpm, ts, total_beats_recorded,
                                       bpm_history, clock)
           ELSE /\ f.outcome[1].art = <<>>
                /\ f.outcome[1].exc =
                       LayerRaises(LAYER_ORDER[Len(alone) + 1],
                                   [hash |-> sha256[seed],
                                    i |-> IF alone = <<>> THEN 0
                                          ELSE alone[Len(alone)].first
                                               + LayerDraws(alone[Len(alone)].name,
                                                     [hash |-> sha256[seed],
                                                      i |-> alone[Len(alone)].first],
                                                     art.svg)],
                                   art.svg)

Ended(c) == frames[c].pc \in {"done", "raised"}

\* C18: under every interleaving of two calls each call ends as it does
\* when run alone, and no step changes the history list it was given or
\* the module-level tables PALETTES and WATERMARK_PATHS
C18_CallsIsolated ==
    /\ [](\A c \in DOMAIN frames : Ended(c) => EndedAsAlone(frames[c]))
    /\ [][bpm_history' = bpm_history /\ tables' = tables]_vars

C18_Witness ==
    /\ DOMAIN frames = Calls
    /\ frames[1].pc = "done" /\ frames[2].pc = "done"
    /\ frames[1].bpm # frames[2].bpm
    /\ frames[1].layers[2].hash # frames[2].layers[2].hash
    /\ frames[1].timestamp # frames[2].timestamp

(***************************************************************************)
(* Two samples: seed string, content hash and filename as characters       *)
(***************************************************************************)
HexDigits ==
    <<"0", "1", "2", "3", "4", "5", "6", "7", "8", "9", "a", "b", "c", "d",
      "e", "f">>

\* hexdigest(): two lowercase hex digits per byte of the digest
RECURSIVE HexDigest(_)
HexDigest(bytes) ==
    IF bytes = <<>> THEN <<>>
    ELSE <<HexDigits[(Head(bytes) \div 16) + 1],
           HexDigits[(Head(bytes) % 16) + 1]>> \o HexDigest(Tail(bytes))

FileName_NoState(total, state, hash) ==
    <<"h", "u", "m", "a", "n", "-">> \o ToStr(total) \o <<"-">>
    \o <<"-">> \o hash \o <<".", "s", "v", "g">>

\* filename = f"human-{total_beats_recorded}-{state}-{art_hash}.svg"
FileName(total, state, hash) ==
    <<"h", "u", "m", "a", "n", "-">> \o ToStr(total) \o <<"-">>
    \o StateChars(state) \o <<"-">> \o hash \o <<".", "s", "v", "g">>

\* the samples of the two calls: timestamps that share their first 16
\* characters with each other and with the first clock readings, one that
\* does not, and the empty timestamp
PairTimestamps ==
    {<<>>,
     DatePrefix \o <<"0", "6", ":", "5", "9", ":", "0", "0">>,
     DatePrefix \o <<"0", "6", ":", "5", "9", ":", "3", "0">>,
     DatePrefix \o <<"0", "7", ":", "0", "0", ":", "0", "0">>}
PairBpm == {None, 0, 5, 55, 72}
PairBeats == {1, 11}
PairHistories == {<<>>, Rep(60, 6)}

NewSample(b, total, history, ts) ==
    [bpm |-> b, total |-> total, history |-> history, timestamp |-> ts,
     pc |-> "enter", state |-> "", seed |-> <<>>, hash |-> <<>>,
     filename |-> <<>>, exc |-> "none"]

InitPair ==
    /\ \E b1 \in {0, 5, 55}, b2 \in PairBpm, n2 \in PairBeats,
          h2 \in PairHistories, t1 \in PairTimestamps, t2 \in PairTimestamps :
           frames = (1 :> NewSample(b1, 1, <<>>, t1))
                    @@ (2 :> NewSample(b2, n2, h2, t2))
    /\ clock = 0
    /\ tables = ModuleTables
    /\ bpm_history = <<>> /\ timestamp = <<>> /\ total_beats_recorded = 1
    /\ rng = <<>> /\ drawn = <<>> /\ sha256 = <<>>
    /\ bpm = 0 /\ state_info = <<>> /\ result1 = <<>> /\ result2 = <<>>
    /\ text = <<>> /\ base = <<>> /\ stego_data = <<>> /\ layer = <<>>
    /\ decode_result = <<>>
    /\ pc = "start"

\* generate_human_art on the sample of call c, with the strings it builds
\* kept as characters: the seed (line 798), the first 16 hex digits of the
\* digest of the string of line 816, and the filename (line 859).  The
\* digest of a string not hashed before is any of CallDigests.
GenerateSample(c) ==
    LET f == frames[c]
        ts == EffectiveTimestamp(f.timestamp, clock)
        out == generate_human_art(f.bpm, f.timestamp, f.total, f.history, clock)
        state == classify_heart_state(f.bpm, f.history, ts).state
        seed == SeedString(f.total, state, f.bpm, ts)
        input == ArtHashInput(f.total, state, f.bpm)
    IN  /\ f.pc = "enter"
        /\ IF out.exc # "none"
           THEN /\ frames' = [frames EXCEPT ![c].pc = "raised",
                                  ![c].exc = out.exc,
                                  ![c].state = state, ![c].seed = seed]
                /\ sha256' = sha256
           ELSE \E digest \in IF input \in DOMAIN sha256 THEN {sha256[input]}
                               ELSE CallDigests :
                    LET hash == FirstN(HexDigest(digest), ART_HASH_CHARS)
                    IN  /\ sha256' = (input :> digest) @@ sha256
                        /\ frames' = [frames EXCEPT ![c].pc = "done",
                               ![c].state = out.art[1].state,
                               ![c].seed = seed,
                               ![c].hash = hash,
                               ![c].filename = FileName(f.total, state, hash)]
        /\ UNCHANGED rng
        /\ CallUnchanged

NextPair == Tick \/ \E c \in Calls : GenerateSample(c)

SpecPair == InitPair /\ [][NextPair]_vars

Seeded(c) == frames[c].seed # <<>>
Described(c) == frames[c].pc = "done"

\* the triple the filename is built from
NameTriple(f) == <<f.total, f.state, f.hash>>

\* the four components the seed string is built from
SeedComponents(f) ==
    <<f.total, f.state, f.bpm, FirstN(f.timestamp, SEED_TIMESTAMP_CHARS)>>

\* C19: the content hash of a returned descriptor is 16 hex characters,
\* the same for two descriptors with the same (count, state, value); the
\* filename is human-<count>-<state>-<hash>.svg, and two descriptors whose
\* (count, state, hash) differ have different filenames
C19_HashAndFileName ==
    \A c \in DOMAIN frames : \A d \in DOMAIN frames :
        Described(c) /\ Described(d) =>
            /\ Len(frames[c].hash) = 16
            /\ \A i \in 1..16 :
                   \E j \in 1..16 : frames[c].hash[i] = HexDigits[j]
            /\ frames[c].hash =
                   SubSeq(HexDigest(sha256[ArtHashInput(frames[c].total,
                                        frames[c].state, frames[c].bpm)]), 1, 16)
            /\ (<<frames[c].total, frames[c].state, frames[c].bpm>>
                    = <<frames[d].total, frames[d].state, frames[d].bpm>>
                => frames[c].hash = frames[d].hash)
            /\ frames[c].filename =
                   <<"h", "u", "m", "a", "n", "-">> \o ToStr(frames[c].total)
                   \o <<"-">> \o StateChars(frames[c].state) \o <<"-">>
                   \o frames[c].hash \o <<".", "s", "v", "g">>
            /\ (NameTriple(frames[c]) # NameTriple(frames[d])
                => frames[c].filename # frames[d].filename)

\* two descriptors of the same count and value whose hashes collide and
\* whose states differ
C19_Witness ==
    /\ DOMAIN frames = Calls
    /\ Described(1) /\ Described(2)
    /\ frames[1].total = frames[2].total
    /\ frames[1].hash = frames[2].hash
    /\ frames[1].state # frames[2].state
    /\ frames[1].bpm = frames[2].bpm
    /\ frames[1].timestamp # frames[2].timestamp

\* C20: two samples are given the same seed string exactly when they
\* agree on (count, state, value, first 16 characters of the timestamp)
C20_SeedInjective ==
    \A c \in DOMAIN frames : \A d \in DOMAIN frames :
        Seeded(c) /\ Seeded(d) =>
            (frames[c].seed = frames[d].seed
                <=> SeedComponents(frames[c]) = SeedComponents(frames[d]))

\* the same relation over the samples that carry a timestamp
SeedInjectiveGivenTimestamps ==
    \A c \in DOMAIN frames : \A d \in DOMAIN frames :
        /\ Seeded(c) /\ Seeded(d)
        /\ frames[c].timestamp # <<>> /\ frames[d].timestamp # <<>>
        => (frames[c].seed = frames[d].seed
               <=> SeedComponents(frames[c]) = SeedComponents(frames[d]))

\* the number of draws the j-th rendered layer of call c consumed
Consumed(c, j) ==
    LET ls == frames[c].layers
    IN  (IF j < Len(ls) THEN ls[j + 1].first ELSE rng[RngOf(c)].i) - ls[j].first

\* a rendered layer that is the empty string
EmitsNothing(l) ==
    \/ l.name = "vessel_waveforms" /\ l.value = <<>>
    \/ l.name = "anomaly_sparks" /\ l.value = 0
    \/ l.name = "data_gap_voids" /\ l.value = 0

\* C24: in every call the renderers run, and draw from the call's one
\* generator, in the order background, heart outline, pacemaker circuitry,
\* vessel waveforms, density layer, anomaly sparks, data-gap voids, EKG
\* strip, metadata band, watermark, whatever the input; a renderer that
\* emits nothing consumes no draws
C24_FixedRenderOrder ==
    \A c \in DOMAIN frames :
        LET ls == frames[c].layers
        IN  /\ ls # <<>> => c \in DOMAIN rng
            /\ \A j \in DOMAIN ls :
                   /\ ls[j].name =
                          <<"background", "heart_outline", "pacemaker_circuit",
                            "vessel_waveforms", "beat_accumulation",
                            "anomaly_sparks", "data_gap_voids", "ekg_waveform",
                            "metadata_band", "watermark">>[j]
                   /\ ls[j].hash = rng[c].hash
                   /\ Consumed(c, j) >= 0
                   /\ j = 1 => ls[j].first = 0
                   /\ EmitsNothing(ls[j]) => Consumed(c, j) = 0

\* both calls returned on one history: the first with empty spark and void
\* layers between a density layer and an EKG strip that drew, the second
\* with sparks that drew
C24_Witness ==
    /\ DOMAIN frames = Calls
    /\ frames[1].pc = "done" /\ frames[2].pc = "done"
    /\ EmitsNothing(frames[1].layers[6])
    /\ EmitsNothing(frames[1].layers[7])
    /\ Consumed(1, 5) > 0 /\ Consumed(1, 8) > 0
    /\ ~EmitsNothing(frames[2].layers[6])
    /\ Consumed(2, 6) > 0

\* C29: draw k + 8 equals draw k, and as every density particle takes 6
\* draws, particles i and i + 4 of a density layer entered with the
\* generator in any state get the same draws for base coordinates, radius,
\* colour and opacity: the layer has at most 4 distinct particles before
\* the payload fraction is applied
C29_PeriodEight ==
    \A k \in DOMAIN rng :
        /\ \A j \in DOMAIN drawn[k] :
               (j + 8) \in DOMAIN drawn[k] => drawn[k][j + 8] = drawn[k][j]
        /\ \A j \in 0..(6 * MIN_PARTICLES) :
               DrawAt(rng[k], j + 8) = DrawAt(rng[k], j)
        /\ \A i \in 0..(MIN_PARTICLES - 5) :
               ParticleDraws(rng[k], i + 4) = ParticleDraws(rng[k], i)
        /\ Cardinality({ParticleDraws(rng[k], i) : i \in 0..(MIN_PARTICLES - 1)})
               <= 4

\* nine draws made, the ninth equal to the first, and a density layer
\* entered next would have exactly 4 distinct particles among its 30
C29_Witness ==
    \E k \in DOMAIN rng :
        /\ Len(drawn[k]) = 9
        /\ drawn[k][9] = drawn[k][1]
        /\ drawn[k][2] # drawn[k][1]
        /\ Cardinality({ParticleDraws(rng[k], i) : i \in 0..29}) = 4


====
